---- MODULE Spec2Model ----
(***************************************************************************)
(* Model of the snake-draft engine of draft_engine.py: class Draft with    *)
(* its player pool, team rosters and pick sequencer, the three pick        *)
(* operations, the preference scorer used by the bots and the two read     *)
(* operations; and of its caller app.py: the loading of the ADP table, the *)
(* auto-advance loop and the user's pick handler.                          *)
(*                                                                         *)
(* Conventions.  Team indices are 0-based as in the code; the roster of    *)
(* team t is teams[t + 1].  Python lists are sequences (index i of Python  *)
(* is index i + 1 here).  ADP values and preference sliders are integers   *)
(* here; stack weights and randomness factors are counted in tenths        *)
(* (app.py passes 1.5, 1.2, 0.9), the values returned by random.uniform in *)
(* halves (noise_scale is 1.0, 1.5, 2.0, ...), and the scores in           *)
(* twentieths: a score is twenty times the float the code computes on the  *)
(* same inputs.                                                            *)
(***************************************************************************)
EXTENDS Integers, Sequences, FiniteSets, TLC

VARIABLES
    num_teams,              \* Draft.num_teams
    num_rounds,             \* Draft.num_rounds
    user_team_index,        \* Draft.user_team_index
    rookie_names,           \* Draft.rookie_names
    catalog,                \* the pool as built by __init__ (never changes)
    player_pool,            \* Draft.player_pool
    teams,                  \* Draft.teams: teams[t + 1] is Team.picks of team t
    current_round,          \* Draft.current_round
    current_pick_in_round,  \* Draft.current_pick_in_round
    last,                   \* the last call: operation, arguments, result and
                            \* the engine state it was invoked in
    history,                \* the successful picks in the order they were made
    csv,                    \* app.py: the ADP table file and what loading it gave
    app,                    \* app.py: where the script is, and its sidebar settings
    rng                     \* the generator behind random.uniform, shared by
                            \* every Draft of the process

vars == <<num_teams, num_rounds, user_team_index, rookie_names, catalog,
          player_pool, teams, current_round, current_pick_in_round, last,
          history, csv, app, rng>>

(***************************************************************************)
(* Bounds of the model.                                                    *)
(***************************************************************************)
MaxTeams == 2       \* num_teams ranges over 1..MaxTeams
MaxRounds == 2      \* num_rounds is 1 or MaxRounds
MaxPlayers == 4     \* the catalog holds the first 0..MaxPlayers rows of a table
ExtraRounds == 1    \* calls are made while current_round <= num_rounds + ExtraRounds
MaxLookahead == 3   \* lookahead ranges over 0..MaxLookahead
MaxDraws == 5       \* random.uniform is followed over its first MaxDraws values
MaxOtherDraws == 2  \* another Draft scores 1..MaxOtherDraws candidates per call
MaxScoreTeams == 2  \* num_teams ranges over 1..MaxScoreTeams where rosters are built

(***************************************************************************)
(* Input tables (the DataFrame handed to Draft.__init__), in file order.   *)
(* Position labels "QB-01" are the pair <<"QB", "01">>.  ADPs are distinct.*)
(***************************************************************************)
Row(player, group, rank, team, adp, rookie) ==
    [Player |-> player, Position |-> <<group, rank>>, Team |-> team,
     ADP |-> adp, Rookie |-> rookie]

RowsQB ==
    << Row("W1", "WR", "01", "KC",  4, 0),
       Row("Q1", "QB", "01", "KC",  1, 0),
       Row("Q3", "QB", "03", "BUF", 3, 0),
       Row("Q2", "QB", "02", "BUF", 2, 1),
       Row("R1", "RB", "01", "BUF", 5, 1),
       Row("T1", "TE", "01", "KC",  6, 0) >>

RowsTE ==
    << Row("T2", "TE", "02", "BUF", 2, 0),
       Row("T1", "TE", "01", "KC",  1, 1),
       Row("R1", "RB", "01", "KC",  4, 0),
       Row("T3", "TE", "03", "KC",  3, 0),
       Row("Q1", "QB", "01", "KC",  5, 0),
       Row("W1", "WR", "01", "BUF", 6, 1) >>

\* a table is its rows and the columns the file has; the Rookie column is
\* optional, and the Rookie values of a table without it are not there to read
RequiredColumns == {"ADP", "Position", "Player", "Team"}

Tables ==
    { [rows |-> RowsQB, columns |-> RequiredColumns \cup {"Rookie"}],
      [rows |-> RowsTE, columns |-> RequiredColumns] }

\* the columns an ADP table file may carry: the required ones, the optional
\* Rookie column and columns the program never reads
FileColumns == RequiredColumns \cup {"Rookie", "Bye", "Notes"}

Min(a, b) == IF a <= b THEN a ELSE b

(***************************************************************************)
(* Draft.__init__                                                          *)
(***************************************************************************)
\* df["Position"].astype(str).str.split("-").str[0]
PosGroup(label) == label[1]

\* Player(name, position, team, adp) built from one row
MakePlayer(row) ==
    [name |-> row.Player, position |-> PosGroup(row.Position),
     team |-> row.Team, adp |-> row.ADP]

\* variant: the rows stay in file order
InsertInFileOrder(sorted, row) == sorted \o <<row>>

\* df.sort_values("ADP", ascending=True): insertion of one row into a sorted
\* sequence, after the rows whose ADP is not larger
RECURSIVE InsertByADP(_, _)
InsertByADP(sorted, row) ==
    IF sorted = <<>> THEN <<row>>
    ELSE IF Head(sorted).ADP <= row.ADP
         THEN <<Head(sorted)>> \o InsertByADP(Tail(sorted), row)
         ELSE <<row>> \o sorted

RECURSIVE SortByADP(_)
SortByADP(rows) ==
    IF rows = <<>> THEN <<>>
    ELSE InsertByADP(SortByADP(SubSeq(rows, 1, Len(rows) - 1)), rows[Len(rows)])

\* self.player_pool = [Player(...) for _, row in df.iterrows()]
BuildPool(rows) ==
    LET df == SortByADP(rows)
    IN  [i \in 1..Len(df) |-> MakePlayer(df[i])]

\* set(df.loc[df["Rookie"] == 1, "Player"]) when the column exists
RookieNames(rows, has_rookie_column) ==
    IF has_rookie_column
    THEN {rows[i].Player : i \in {j \in 1..Len(rows) : rows[j].Rookie = 1}}
    ELSE {}

NoCall ==
    [op |-> "init", result |-> "none", player |-> "none", arg |-> "none",
     lookahead |-> 0, scores |-> <<>>, rows |-> <<>>,
     pool |-> <<>>, teams |-> <<>>, round |-> 0, pick |-> 0]

\* app.py is not running
NoApp == [pc |-> "none", mode |-> "none", ui_teams |-> 0, ui_rounds |-> 0, ui_user |-> 0, bot_picks |-> 0, exit |-> "none"]

\* the draws of random.uniform are not followed
NoRng == [stream |-> <<>>, pos |-> 0, own |-> 0, first |-> 0]

\* Draft(players_df, num_teams, num_rounds, user_team_index)
InitDraft ==
    /\ num_teams \in 1..MaxTeams
    /\ num_rounds \in {1, MaxRounds}
    /\ user_team_index \in 0..(num_teams - 1)
    /\ \E table \in Tables, n \in 0..MaxPlayers :
          LET rows == SubSeq(table.rows, 1, Min(n, Len(table.rows)))
          IN  /\ rookie_names = RookieNames(rows, "Rookie" \in table.columns)
              /\ catalog = BuildPool(rows)
              /\ player_pool = BuildPool(rows)
              /\ csv = [columns |-> table.columns, result |-> "ok", missing |-> {}]
    /\ teams = [t \in 1..num_teams |-> <<>>]
    /\ current_round = 1
    /\ current_pick_in_round = 1
    /\ last = NoCall
    /\ history = <<>>

Init ==
    /\ InitDraft
    /\ app = NoApp
    /\ rng = NoRng

(***************************************************************************)
(* Basic mechanics                                                         *)
(***************************************************************************)
Reverse(s) == [i \in 1..Len(s) |-> s[Len(s) + 1 - i]]

\* variant: the odd rounds are the reversed ones
GetPickOrderOddReversed(rnd) ==
    LET order == [i \in 1..num_teams |-> i - 1]
    IN  IF rnd % 2 = 1 THEN Reverse(order) ELSE order

\* Draft._get_pick_order
GetPickOrder(rnd) ==
    LET order == [i \in 1..num_teams |-> i - 1]
    IN  IF rnd % 2 = 0 THEN Reverse(order) ELSE order

\* variant: the order of round 1 is used in every round
GetCurrentTeamIndexNoSnake == GetPickOrder(1)[current_pick_in_round]

\* Draft.get_current_team_index
GetCurrentTeamIndex == GetPickOrder(current_round)[current_pick_in_round]

\* variant: the pick counter goes on past the last team of the round
AdvancePickNoWrap(rnd, pick) == <<rnd, pick + 1>>

\* variant: the round counter is not advanced at the end of a round
AdvancePickSameRound(rnd, pick) ==
    IF pick < num_teams THEN <<rnd, pick + 1>> ELSE <<rnd, 1>>

\* Draft._advance_pick: the new <<current_round, current_pick_in_round>>
AdvancePick(rnd, pick) ==
    IF pick < num_teams THEN <<rnd, pick + 1>> ELSE <<rnd + 1, 1>>

\* Draft.is_finished
IsFinished == current_round > num_rounds

\* variant: the element is read but not removed
PopAtKeeps(s, i) == s

\* list.pop(i) for a valid index: the list that remains
PopAt(s, i) == SubSeq(s, 1, i - 1) \o SubSeq(s, i + 1, Len(s))

\* variant: the player is put at the front of the roster
AddPlayerPrepends(ts, team_idx, player) ==
    [ts EXCEPT ![team_idx + 1] = <<player>> \o @]

\* Team.add_player on team team_idx
AddPlayer(ts, team_idx, player) ==
    [ts EXCEPT ![team_idx + 1] = Append(@, player)]

\* the record of a call made in the current state
Call(op, result, player, arg, lookahead, scores) ==
    [op |-> op, result |-> result, player |-> player, arg |-> arg,
     lookahead |-> lookahead, scores |-> scores, rows |-> <<>>,
     pool |-> player_pool, teams |-> teams,
     round |-> current_round, pick |-> current_pick_in_round]

\* the driver makes calls while the round counter is within the model's cap
CanCall == current_round <= num_rounds + ExtraRounds

Config == <<num_teams, num_rounds, user_team_index, rookie_names, catalog, csv>>

(***************************************************************************)
(* Draft.make_bot_pick (with Draft._pop_best_available)                    *)
(***************************************************************************)
MakeBotPick ==
    /\ CanCall
    /\ LET team_idx == GetCurrentTeamIndex
           next == AdvancePick(current_round, current_pick_in_round)
       IN  /\ IF player_pool = <<>>
              THEN /\ UNCHANGED <<player_pool, teams>>
                   /\ last' = Call("make_bot_pick", "none", "none", "none", 0, <<>>)
              ELSE /\ player_pool' = PopAt(player_pool, 1)
                   /\ teams' = AddPlayer(teams, team_idx, player_pool[1])
                   /\ last' = Call("make_bot_pick", "ok", player_pool[1].name,
                                   "none", 0, <<>>)
           /\ current_round' = next[1]
           /\ current_pick_in_round' = next[2]
    /\ UNCHANGED Config

(***************************************************************************)
(* Draft._score_player_for_prefs                                           *)
(***************************************************************************)
HARD_CAP == 2
HUGE_PENALTY == 1000000
EARLY_ROUND_LIMIT_QB == 6
EARLY_ROUND_LIMIT_TE == 6

\* sum(1 for p in team.picks if p.position == pos)
CountPosition(picks, pos) ==
    Cardinality({i \in 1..Len(picks) : picks[i].position = pos})

\* {p.team for p in team.picks if p.position in positions}
TeamsOf(picks, positions) ==
    {picks[i].team : i \in {j \in 1..Len(picks) : picks[j].position \in positions}}

\* variant: overall_pick is divided as it is, not one less
RoundIndexNoOffset ==
    LET overall_pick == (current_round - 1) * num_teams + current_pick_in_round
    IN  (overall_pick \div num_teams) + 1

\* round_index as the scorer derives it from overall_pick
RoundIndex ==
    LET overall_pick == (current_round - 1) * num_teams + current_pick_in_round
    IN  ((overall_pick - 1) \div num_teams) + 1

\* twice noise_scale = min(1.0 + 0.5 * (round_index - 1), 4.0)
NoiseScale2(round_index) == Min(2 + (round_index - 1), 8)

\* values random.uniform(-noise_scale, noise_scale) returns, in halves: the
\* two ends of the interval.  The code's draw is any float of the interval;
\* a candidate that wins under some draws of the interval wins with its own
\* draw at the upper end and every other draw at the lower end
UniformDraws(round_index) ==
    {-NoiseScale2(round_index), NoiseScale2(round_index)}

\* variant: the hard cap branch is missing, only the early-round penalty is left
QBGuardNoCap(player, qb_count, round_index) ==
    IF player.position = "QB"
    THEN IF qb_count >= 1 /\ round_index <= EARLY_ROUND_LIMIT_QB THEN -8 ELSE 0
    ELSE 0

\* the positional value rule for QB: what it adds to a candidate's score
QBGuard(player, qb_count, round_index) ==
    IF player.position = "QB"
    THEN IF qb_count >= HARD_CAP THEN -HUGE_PENALTY
         ELSE IF qb_count >= 1 /\ round_index <= EARLY_ROUND_LIMIT_QB
              THEN -8 ELSE 0
    ELSE 0

\* variant: the early-round penalty for a second TE has no round limit
TEGuardAnyRound(player, te_count, round_index) ==
    IF player.position = "TE"
    THEN IF te_count >= HARD_CAP THEN -HUGE_PENALTY
         ELSE IF te_count >= 1 THEN -8 ELSE 0
    ELSE 0

\* the positional value rule for TE
TEGuard(player, te_count, round_index) ==
    IF player.position = "TE"
    THEN IF te_count >= HARD_CAP THEN -HUGE_PENALTY
         ELSE IF te_count >= 1 /\ round_index <= EARLY_ROUND_LIMIT_TE
              THEN -8 ELSE 0
    ELSE 0

\* score = -player.adp
BaseScore(player) == -player.adp

\* variant: the smaller penalty has no round limit
WRBalanceAnyRound(player, wr_count, rb_count, round_index) ==
    IF player.position = "WR"
    THEN IF wr_count >= 4 /\ rb_count = 0 THEN -12
         ELSE IF wr_count >= 4 /\ rb_count <= 1 THEN -6 ELSE 0
    ELSE 0

\* the RB/WR balance rule for a WR candidate
WRBalance(player, wr_count, rb_count, round_index) ==
    IF player.position = "WR"
    THEN IF wr_count >= 4 /\ rb_count = 0 THEN -12
         ELSE IF wr_count >= 4 /\ rb_count <= 1 /\ round_index <= 8
              THEN -6 ELSE 0
    ELSE 0

\* the RB/WR balance rule for an RB candidate
RBBalance(player, rb_count, wr_count, round_index) ==
    IF player.position = "RB"
    THEN IF rb_count >= 4 /\ wr_count = 0 THEN -12
         ELSE IF rb_count >= 4 /\ wr_count <= 1 /\ round_index <= 8
              THEN -6 ELSE 0
    ELSE 0

\* variant: a candidate of any position stacks with a rostered QB of its team
StackBonusAnyPosition(player, qb_teams, receiver_teams, stack_weight) ==
    (IF player.team \in qb_teams THEN stack_weight ELSE 0)
    + (IF player.position = "QB" /\ player.team \in receiver_teams
       THEN stack_weight ELSE 0)

\* the stacking bonus, in tenths: QB with WR/TE of the same NFL team
StackBonus(player, qb_teams, receiver_teams, stack_weight) ==
    (IF player.position \in {"WR", "TE"} /\ player.team \in qb_teams
     THEN stack_weight ELSE 0)
    + (IF player.position = "QB" /\ player.team \in receiver_teams
       THEN stack_weight ELSE 0)

\* the score of one candidate, in twentieths; stack_weight and
\* randomness_factor are given in tenths (1.5 is 15); noise_draw is what
\* random.uniform returned, in halves
ScorePlayerForPrefs(player, rb_pref, qb_pref, rookie_pref, fav_team, team_pref, stack_weight, randomness_factor, noise_draw) ==
    LET team_idx == GetCurrentTeamIndex
        picks == teams[team_idx + 1]
        qb_count == CountPosition(picks, "QB")
        te_count == CountPosition(picks, "TE")
        rb_count == CountPosition(picks, "RB")
        wr_count == CountPosition(picks, "WR")
        qb_teams == TeamsOf(picks, {"QB"})
        receiver_teams == TeamsOf(picks, {"WR", "TE"})
        round_index == RoundIndex
        base == BaseScore(player)
        rb == IF player.position = "RB" THEN rb_pref ELSE 0
        qb == IF player.position = "QB" THEN qb_pref ELSE 0
        rookie == IF player.name \in rookie_names THEN rookie_pref ELSE 0
        fav == IF fav_team # "None" /\ player.team = fav_team THEN team_pref ELSE 0
        qb_guard == QBGuard(player, qb_count, round_index)
        te_guard == TEGuard(player, te_count, round_index)
        wr_balance == WRBalance(player, wr_count, rb_count, round_index)
        rb_balance == RBBalance(player, rb_count, wr_count, round_index)
        stack == StackBonus(player, qb_teams, receiver_teams, stack_weight)
        noise == noise_draw * randomness_factor
    IN  20 * (base + rb + qb + rookie + fav + qb_guard + te_guard + wr_balance
              + rb_balance)
        + 2 * stack + noise

(***************************************************************************)
(* Draft.make_bot_pick_with_prefs                                          *)
(***************************************************************************)
\* candidates = self.player_pool[:lookahead], for lookahead >= 0
Candidates(pool, lookahead) == SubSeq(pool, 1, Min(lookahead, Len(pool)))

\* max(candidates, key=...): the scan keeps the best index seen so far and
\* replaces it only by a strictly greater score
RECURSIVE MaxScan(_, _, _)
MaxScan(scores, i, best) ==
    IF i > Len(scores) THEN best
    ELSE MaxScan(scores, i + 1, IF scores[i] > scores[best] THEN i ELSE best)

\* variant: the scan replaces the best on an equal score too (last maximum)
RECURSIVE MaxScanLast(_, _, _)
MaxScanLast(scores, i, best) ==
    IF i > Len(scores) THEN best
    ELSE MaxScanLast(scores, i + 1, IF scores[i] >= scores[best] THEN i ELSE best)

MaxIndexLast(scores) == MaxScanLast(scores, 2, 1)

MaxIndex(scores) == MaxScan(scores, 2, 1)

\* list.index(x): the first index holding a value equal to x
RECURSIVE IndexFrom(_, _, _)
IndexFrom(s, x, i) ==
    IF i > Len(s) THEN 0
    ELSE IF s[i] = x THEN i ELSE IndexFrom(s, x, i + 1)

IndexOf(s, x) == IndexFrom(s, x, 1)

\* bot preference inputs of one call
Profile(rb_pref, qb_pref, rookie_pref, fav_team, team_pref, stack_weight, randomness_factor) ==
    [rb_pref |-> rb_pref, qb_pref |-> qb_pref, rookie_pref |-> rookie_pref,
     fav_team |-> fav_team, team_pref |-> team_pref,
     stack_weight |-> stack_weight, randomness_factor |-> randomness_factor]

Profiles ==
    { Profile( 0,  0,  0, "None", 0, 0, 0),
      Profile( 5, -5,  1, "KC",   1, 20, 0),
      Profile(-5,  5, -5, "BUF",  5, 0, 10) }

MakeBotPickWithPrefs(prof, lookahead, draws) ==
    /\ CanCall
    /\ IF player_pool = <<>>
       THEN /\ last' = Call("make_bot_pick_with_prefs", "none", "none", "none",
                            lookahead, <<>>)
            /\ UNCHANGED <<player_pool, teams, current_round, current_pick_in_round>>
       ELSE LET candidates == Candidates(player_pool, lookahead)
            IN  IF candidates = <<>>
                THEN \* max() of an empty sequence raises ValueError
                     /\ last' = Call("make_bot_pick_with_prefs", "ValueError",
                                     "none", "none", lookahead, <<>>)
                     /\ UNCHANGED <<player_pool, teams, current_round,
                                    current_pick_in_round>>
                ELSE LET scores ==
                             [i \in 1..Len(candidates) |->
                                 ScorePlayerForPrefs(candidates[i], prof.rb_pref,
                                     prof.qb_pref, prof.rookie_pref, prof.fav_team,
                                     prof.team_pref, prof.stack_weight,
                                     prof.randomness_factor, draws[i])]
                         best_player == candidates[MaxIndex(scores)]
                         idx == IndexOf(player_pool, best_player)
                         player == player_pool[idx]
                         team_idx == GetCurrentTeamIndex
                         next == AdvancePick(current_round, current_pick_in_round)
                     IN  /\ player_pool' = PopAt(player_pool, idx)
                         /\ teams' = AddPlayer(teams, team_idx, player)
                         /\ current_round' = next[1]
                         /\ current_pick_in_round' = next[2]
                         /\ last' = Call("make_bot_pick_with_prefs", "ok",
                                         player.name, "none", lookahead, scores)
    /\ UNCHANGED Config

(***************************************************************************)
(* Draft.make_user_pick                                                    *)
(***************************************************************************)
\* for i, p in enumerate(self.player_pool): if p.name == player_name
RECURSIVE NameIndexFrom(_, _, _)
NameIndexFrom(pool, player_name, i) ==
    IF i > Len(pool) THEN 0
    ELSE IF pool[i].name = player_name THEN i
         ELSE NameIndexFrom(pool, player_name, i + 1)

\* variant: the name is not compared, the first pool entry matches
NameIndexAnyName(pool, player_name) == IF pool = <<>> THEN 0 ELSE 1

NameIndex(pool, player_name) == NameIndexFrom(pool, player_name, 1)

MakeUserPick(player_name) ==
    /\ CanCall
    /\ LET team_idx == GetCurrentTeamIndex
           i == NameIndex(player_pool, player_name)
           next == AdvancePick(current_round, current_pick_in_round)
       IN  IF team_idx # user_team_index
           THEN /\ last' = Call("make_user_pick", "NotUsersTurn", "none",
                                player_name, 0, <<>>)
                /\ UNCHANGED <<player_pool, teams, current_round,
                               current_pick_in_round>>
           ELSE IF i = 0
                THEN /\ last' = Call("make_user_pick", "none", "none",
                                     player_name, 0, <<>>)
                     /\ UNCHANGED <<player_pool, teams, current_round,
                                    current_pick_in_round>>
                ELSE /\ player_pool' = PopAt(player_pool, i)
                     /\ teams' = AddPlayer(teams, team_idx, player_pool[i])
                     /\ current_round' = next[1]
                     /\ current_pick_in_round' = next[2]
                     /\ last' = Call("make_user_pick", "ok", player_pool[i].name,
                                     player_name, 0, <<>>)
    /\ UNCHANGED Config

(***************************************************************************)
(* The callers' inputs                                                     *)
(***************************************************************************)
\* names a user can type: every name of the pool, the name of the best ranked
\* player already drafted, and one that no player of the catalog bears
UserNames ==
    LET pool_names == {player_pool[i].name : i \in 1..Len(player_pool)}
        drafted == {i \in 1..Len(catalog) : catalog[i].name \notin pool_names}
        first_drafted ==
            {catalog[i].name : i \in {j \in drafted : \A m \in drafted : j <= m}}
    IN  pool_names \cup first_drafted \cup {"nobody"}

\* one random.uniform value per scored candidate, each drawn on its own.
\* With randomness_factor = 0 the noise is 0 whatever is drawn, and one
\* vector stands for all of them
DrawVectors(prof, lookahead) ==
    LET n == Len(Candidates(player_pool, lookahead))
    IN  IF prof.randomness_factor = 0
        THEN {[i \in 1..n |-> 0]}
        ELSE [1..n -> UniformDraws(RoundIndex)]

(***************************************************************************)
(* Draft.summary_df and Draft.get_available_players                        *)
(***************************************************************************)
\* Team.name = f"Team {i+1}"
TeamName(team_idx) == <<"Team", team_idx + 1>>

\* the row summary_df appends for slot pick_num_in_round of round rnd
SummaryRow(rnd, pick_num_in_round) ==
    LET team_idx == GetPickOrder(rnd)[pick_num_in_round]
        p == teams[team_idx + 1][rnd]
    IN  [overall_pick |-> (rnd - 1) * num_teams + pick_num_in_round,
         round |-> rnd, pick_in_round |-> pick_num_in_round,
         team |-> TeamName(team_idx), player |-> p.name,
         position |-> p.position, nfl_team |-> p.team, adp |-> p.adp]

\* the rows of the two nested loops from slot `slot` on; slot s stands for
\* round (s - 1) \div num_teams + 1, pick (s - 1) % num_teams + 1
RECURSIVE SummaryFrom(_)
SummaryFrom(slot) ==
    IF slot > num_rounds * num_teams THEN <<>>
    ELSE LET rnd == ((slot - 1) \div num_teams) + 1
             pick_num_in_round == ((slot - 1) % num_teams) + 1
             team_idx == GetPickOrder(rnd)[pick_num_in_round]
         IN  IF Len(teams[team_idx + 1]) >= rnd
             THEN <<SummaryRow(rnd, pick_num_in_round)>> \o SummaryFrom(slot + 1)
             ELSE SummaryFrom(slot + 1)

\* variant: the rows are listed in slot order 0..N-1 in every round
RECURSIVE SummaryNoSnakeFrom(_)
SummaryNoSnakeFrom(slot) ==
    IF slot > num_rounds * num_teams THEN <<>>
    ELSE LET rnd == ((slot - 1) \div num_teams) + 1
             pick_num_in_round == ((slot - 1) % num_teams) + 1
             team_idx == pick_num_in_round - 1
             p == teams[team_idx + 1][rnd]
         IN  IF Len(teams[team_idx + 1]) >= rnd
             THEN << [overall_pick |-> slot, round |-> rnd,
                      pick_in_round |-> pick_num_in_round,
                      team |-> TeamName(team_idx), player |-> p.name,
                      position |-> p.position, nfl_team |-> p.team,
                      adp |-> p.adp] >> \o SummaryNoSnakeFrom(slot + 1)
             ELSE SummaryNoSnakeFrom(slot + 1)

SummaryDfNoSnake == SummaryNoSnakeFrom(1)

\* Draft.summary_df: the rows of the DataFrame it returns
SummaryDf == SummaryFrom(1)

\* variant: the report takes the reported picks off the rosters
SummaryDfCallConsuming ==
    /\ CanCall
    /\ last' = [Call("summary_df", "rows", "none", "none", 0, <<>>)
                    EXCEPT !.rows = SummaryDf]
    /\ teams' = [t \in 1..num_teams |-> <<>>]
    /\ UNCHANGED <<player_pool, current_round, current_pick_in_round>>
    /\ UNCHANGED Config

\* a call of summary_df: it reads the rosters and writes nothing
SummaryDfCall ==
    /\ CanCall
    /\ last' = [Call("summary_df", "rows", "none", "none", 0, <<>>)
                    EXCEPT !.rows = SummaryDf]
    /\ UNCHANGED <<player_pool, teams, current_round, current_pick_in_round>>
    /\ UNCHANGED Config

\* Draft.get_available_players returns self.player_pool, the list object the
\* engine keeps: what the caller reads through it is the pool as it is now
ReturnedList == player_pool

\* a call of get_available_players
GetAvailablePlayersCall ==
    /\ CanCall
    /\ last' = Call("get_available_players", "player_pool", "none", "none", 0, <<>>)
    /\ UNCHANGED <<player_pool, teams, current_round, current_pick_in_round>>
    /\ UNCHANGED Config

\* the log of picks: a successful pick is entered with the slot it was made in
LogPick ==
    history' =
        IF last'.result = "ok"
        THEN Append(history, [round |-> current_round,
                              pick |-> current_pick_in_round,
                              team |-> GetCurrentTeamIndex,
                              player |-> last'.player])
        ELSE history

(***************************************************************************)
(* app.py: load_adp_table, and the Draft built from the table it returns.  *)
(* Before a Draft exists its fields hold no values (num_teams = 0).        *)
(***************************************************************************)
\* variant: the optional column is expected too
MissingColumnsWithRookie(columns) == (RequiredColumns \cup {"Rookie"}) \ columns

\* missing = expected - set(df.columns)
MissingColumns(columns) == RequiredColumns \ columns

\* load_adp_table: raises ValueError naming the missing columns, or returns df
LoadAdpTable ==
    /\ csv.result = "unread"
    /\ csv' = LET missing == MissingColumns(csv.columns)
              IN  IF missing # {}
                  THEN [csv EXCEPT !.result = "ValueError", !.missing = missing]
                  ELSE [csv EXCEPT !.result = "ok"]
    /\ UNCHANGED <<num_teams, num_rounds, user_team_index, rookie_names, catalog>>
    /\ UNCHANGED <<player_pool, teams, current_round, current_pick_in_round>>
    /\ UNCHANGED <<last, history, app, rng>>

\* Draft(players_df, num_teams, num_rounds, user_team_index) over the loaded
\* table: the first n rows of RowsQB under the file's columns
NewDraft ==
    /\ csv.result = "ok"
    /\ num_teams = 0
    /\ num_teams' \in 1..MaxTeams
    /\ num_rounds' \in {1, MaxRounds}
    /\ user_team_index' \in 0..(num_teams' - 1)
    /\ \E n \in 0..MaxPlayers :
          LET rows == SubSeq(RowsQB, 1, Min(n, Len(RowsQB)))
          IN  /\ rookie_names' = RookieNames(rows, "Rookie" \in csv.columns)
              /\ catalog' = BuildPool(rows)
              /\ player_pool' = BuildPool(rows)
    /\ teams' = [t \in 1..num_teams' |-> <<>>]
    /\ current_round' = 1
    /\ current_pick_in_round' = 1
    /\ UNCHANGED <<last, history, csv, app, rng>>

\* the program has read a file with some of the columns and built no Draft
InitLoad ==
    /\ csv \in {[columns |-> c, result |-> "unread", missing |-> {}] : c \in SUBSET FileColumns}
    /\ num_teams = 0
    /\ num_rounds = 0
    /\ user_team_index = 0
    /\ rookie_names = {}
    /\ catalog = <<>>
    /\ player_pool = <<>>
    /\ teams = <<>>
    /\ current_round = 0
    /\ current_pick_in_round = 0
    /\ last = NoCall
    /\ history = <<>>
    /\ app = NoApp
    /\ rng = NoRng

NextLoad ==
    \/ LoadAdpTable
    \/ NewDraft

SpecLoad == InitLoad /\ [][NextLoad]_vars

Next ==
    \/ MakeBotPick /\ LogPick /\ UNCHANGED <<app, rng>>
    \/ \E prof \in Profiles, lookahead \in 0..MaxLookahead :
          \E draws \in DrawVectors(prof, lookahead) :
             MakeBotPickWithPrefs(prof, lookahead, draws) /\ LogPick /\ UNCHANGED <<app, rng>>
    \/ \E player_name \in UserNames :
          MakeUserPick(player_name) /\ LogPick /\ UNCHANGED <<app, rng>>
    \/ SummaryDfCall /\ LogPick /\ UNCHANGED <<app, rng>>
    \/ GetAvailablePlayersCall /\ LogPick /\ UNCHANGED <<app, rng>>

Spec == Init /\ [][Next]_vars

(***************************************************************************)
(* The best-available scenario: four teams, two rounds, a table of eight   *)
(* players with ADP 1..8 (in some file order), drafted by make_bot_pick    *)
(* alone and reported by summary_df.                                       *)
(***************************************************************************)
RowsEightA ==
    << Row("R2", "RB", "02", "BUF", 5, 0),
       Row("Q1", "QB", "01", "KC",  1, 0),
       Row("W3", "WR", "03", "KC",  8, 1),
       Row("W1", "WR", "01", "BUF", 3, 0),
       Row("T1", "TE", "01", "KC",  6, 0),
       Row("R1", "RB", "01", "KC",  2, 1),
       Row("W2", "WR", "02", "KC",  4, 0),
       Row("Q2", "QB", "02", "BUF", 7, 0) >>

RowsEightB ==
    << Row("Q3", "QB", "03", "BUF", 8, 0),
       Row("Q2", "QB", "02", "KC",  7, 0),
       Row("R1", "RB", "01", "BUF", 1, 0),
       Row("R2", "RB", "02", "KC",  2, 0),
       Row("R3", "RB", "03", "KC",  3, 1),
       Row("Q1", "QB", "01", "BUF", 6, 0),
       Row("W1", "WR", "01", "KC",  4, 0),
       Row("T1", "TE", "01", "BUF", 5, 1) >>

InitScenario ==
    /\ num_teams = 4
    /\ num_rounds = 2
    /\ user_team_index \in 0..(num_teams - 1)
    /\ \E rows \in {RowsEightA, RowsEightB} :
          /\ rookie_names = RookieNames(rows, TRUE)
          /\ catalog = BuildPool(rows)
          /\ player_pool = BuildPool(rows)
    /\ csv = [columns |-> RequiredColumns \cup {"Rookie"}, result |-> "ok", missing |-> {}]
    /\ teams = [t \in 1..num_teams |-> <<>>]
    /\ current_round = 1
    /\ current_pick_in_round = 1
    /\ last = NoCall
    /\ history = <<>>
    /\ app = NoApp
    /\ rng = NoRng

NextScenario ==
    \/ MakeBotPick /\ LogPick /\ UNCHANGED <<app, rng>>
    \/ SummaryDfCall /\ LogPick /\ UNCHANGED <<app, rng>>

SpecScenario == InitScenario /\ [][NextScenario]_vars

(***************************************************************************)
(* app.py after "Start Draft".  Every run of the script goes through the   *)
(* auto-advance loop and then renders the page; on the page the user may   *)
(* press "Draft Player" or touch a sidebar widget, and both start a new    *)
(* run; the sidebar's "Restart draft" builds a new Draft and leads to the  *)
(* setup screen, whose "Start Draft" builds the Draft that is played.      *)
(* app.pc is "loop" while a run is at the loop, "idle" once the page is    *)
(* rendered, "error" once the run has raised, "setup" on the setup screen; *)
(* app.exit tells how the loop was left.  app.ui_rounds and app.ui_user    *)
(* are the sidebar's number of rounds and draft slot (0-based), and        *)
(* app.ui_teams is the                                                     *)
(* sidebar's number of teams, which is the length of bot_profiles;         *)
(* app.bot_picks counts the bots' picks since the user's last pick.  The   *)
(* ranges of the sliders are scaled down to the bounds of the model.       *)
(***************************************************************************)
DEFAULT_LOOKAHEAD == 30
TOP_N == 60
POSITION_ORDER == <<"QB", "RB", "WR", "TE", "DEF", "K">>

Modes == {"General", "Advanced"}

\* what the loop passes to make_bot_pick_with_prefs.  General mode: the
\* sliders (two settings of them), stack_weight 1.5, randomness_factor 1.0.
\* Advanced mode: a team's profile (presets Balanced and Team Super Fan), or
\* the sliders' defaults for a team whose profile is None
AppProfiles(mode) ==
    IF mode = "General"
    THEN {Profile(0, 0, 0, "None", 0, 15, 10), Profile(4, -2, 1, "KC", 3, 15, 10)}
    ELSE {Profile(0, 0, 0, "None", 0, 15, 10), Profile(0, 0, 0, "BUF", 5, 20, 10)}

\* variant: the loop goes on whoever is on the clock
LoopConditionAnyTeam == ~IsFinished

\* while not draft.is_finished() and
\*       draft.get_current_team_index() != draft.user_team_index
LoopCondition == ~IsFinished /\ GetCurrentTeamIndex # user_team_index

\* render_draft_board(draft): for every team of the draft but the user's,
\* prof = bot_profiles[idx] raises IndexError beyond the end of bot_profiles
RenderDraftBoardRaises ==
    \E idx \in 0..(num_teams - 1) : idx # user_team_index /\ idx >= app.ui_teams

\* one iteration of the auto-advance loop: the pick, then the board is
\* rendered; after a pick that returned None the loop is left by break and
\* the board is rendered behind the loop
AutoAdvance ==
    /\ app.pc = "loop"
    /\ LoopCondition
    /\ LET bot_team_idx == GetCurrentTeamIndex
       IN  IF app.mode = "Advanced" /\ bot_team_idx >= app.ui_teams
           THEN \* st.session_state.bot_profiles[bot_team_idx] raises IndexError
                /\ app' = [app EXCEPT !.pc = "error", !.exit = "IndexError"]
                /\ UNCHANGED <<player_pool, teams, current_round, current_pick_in_round>>
                /\ UNCHANGED <<last, history>>
                /\ UNCHANGED Config
           ELSE \E prof \in AppProfiles(app.mode) :
                   \E draws \in DrawVectors(prof, DEFAULT_LOOKAHEAD) :
                      /\ MakeBotPickWithPrefs(prof, DEFAULT_LOOKAHEAD, draws)
                      /\ LogPick
                      /\ app' = IF last'.result = "none"
                                THEN [app EXCEPT !.exit = "break",
                                        !.pc = IF RenderDraftBoardRaises THEN "error" ELSE "idle"]
                                ELSE IF RenderDraftBoardRaises
                                     THEN [app EXCEPT !.bot_picks = @ + 1,
                                             !.pc = "error", !.exit = "IndexError"]
                                     ELSE [app EXCEPT !.bot_picks = @ + 1]
    /\ UNCHANGED rng

\* the loop condition is false: the run goes on to render the board and,
\* unless that raises, the page
LoopExit ==
    /\ app.pc = "loop"
    /\ ~LoopCondition
    /\ app' = [app EXCEPT !.exit = "condition",
                  !.pc = IF RenderDraftBoardRaises THEN "error" ELSE "idle"]
    /\ UNCHANGED <<player_pool, teams, current_round, current_pick_in_round>>
    /\ UNCHANGED <<last, history, rng>>
    /\ UNCHANGED Config

\* pos_options: the positions of POSITION_ORDER some available player has
PosOptions ==
    {"All"} \cup {POSITION_ORDER[k] : k \in {j \in 1..Len(POSITION_ORDER) :
                     \E i \in 1..Len(player_pool) : player_pool[i].position = POSITION_ORDER[j]}}

\* filtered[:top_n]
Filtered(pos_choice) ==
    LET filtered == IF pos_choice # "All"
                    THEN SelectSeq(player_pool, LAMBDA p : p.position = pos_choice)
                    ELSE player_pool
    IN  SubSeq(filtered, 1, Min(TOP_N, Len(filtered)))

\* f"{p.name} ({p.position} - {p.team}, ADP {int(p.adp)})": the label is the
\* tuple of its parts
OptionLabel(p) == <<p.name, p.position, p.team, p.adp>>

\* choice.split(" (")[0], for names that hold no " ("
ChoiceName(choice) == choice[1]

\* "Draft Player" pressed on a selected option: the run reaches the handler
\* with the user on the clock, calls make_user_pick and reruns on success
UserDraft ==
    /\ app.pc = "idle"
    /\ GetCurrentTeamIndex = user_team_index /\ ~IsFinished
    /\ \E pos_choice \in PosOptions :
          \E k \in 1..Len(Filtered(pos_choice)) :
             /\ MakeUserPick(ChoiceName(OptionLabel(Filtered(pos_choice)[k])))
             /\ LogPick
             /\ app' = IF last'.result = "ok"
                       THEN [app EXCEPT !.pc = "loop", !.bot_picks = 0, !.exit = "none"]
                       ELSE app
    /\ UNCHANGED rng

\* a sidebar widget is changed: a new run starts with the new settings, and
\* bot_profiles is rebuilt with ui_teams entries; the Draft of the session
\* stays.  Before "Start Draft" the run ends on the setup screen again
Rerun(mode, ui_teams, ui_rounds, ui_user) ==
    /\ app.pc \in {"setup", "idle", "error"}
    /\ ui_user < ui_teams
    /\ app' = [app EXCEPT !.pc = IF app.pc = "setup" THEN "setup" ELSE "loop",
                  !.mode = mode, !.ui_teams = ui_teams, !.ui_rounds = ui_rounds,
                  !.ui_user = ui_user, !.exit = "none"]
    /\ UNCHANGED <<player_pool, teams, current_round, current_pick_in_round>>
    /\ UNCHANGED <<last, history, rng>>
    /\ UNCHANGED Config

\* st.session_state.draft = Draft(players_df, num_teams, num_rounds,
\* user_team_index) with the sidebar's settings, over the table loaded once
SessionDraft(rounds) ==
    /\ num_teams' = app.ui_teams
    /\ num_rounds' = rounds
    /\ user_team_index' = app.ui_user
    /\ player_pool' = catalog
    /\ teams' = [t \in 1..app.ui_teams |-> <<>>]
    /\ current_round' = 1
    /\ current_pick_in_round' = 1
    /\ last' = NoCall
    /\ history' = <<>>
    /\ UNCHANGED <<rookie_names, catalog, csv, rng>>

\* the sidebar's "Restart draft" is pressed: the run replaces the Draft, puts
\* draft_started back to False and ends on the setup screen (st.stop)
RestartDraft ==
    /\ app.pc \in {"setup", "idle", "error"}
    /\ SessionDraft(app.ui_rounds)
    /\ app' = [app EXCEPT !.pc = "setup", !.bot_picks = 0, !.exit = "none"]

\* "Start Draft" is pressed on the setup screen: the Draft is built once more
\* with effective_rounds = max(num_rounds, total_starters), and st.rerun
\* starts the run that goes to the loop.  total_starters is the size of the
\* lineup chosen on the setup screen
StartDraft(total_starters) ==
    /\ app.pc = "setup"
    /\ SessionDraft(IF app.ui_rounds >= total_starters THEN app.ui_rounds
                    ELSE total_starters)
    /\ app' = [app EXCEPT !.pc = "loop", !.bot_picks = 0, !.exit = "none"]

\* "Start Draft" has built the Draft from the sidebar's settings
InitApp ==
    /\ InitDraft
    /\ app \in {[pc |-> "loop", mode |-> m, ui_teams |-> num_teams, ui_rounds |-> r,
                  ui_user |-> user_team_index, bot_picks |-> 0, exit |-> "none"] :
                    m \in Modes, r \in {q \in {1, MaxRounds} : q <= num_rounds}}
    /\ rng = NoRng

NextApp ==
    \/ AutoAdvance
    \/ LoopExit
    \/ UserDraft
    \/ \E mode \in Modes, ui_teams \in 1..MaxTeams, ui_rounds \in {1, MaxRounds} :
          \E ui_user \in 0..(MaxTeams - 1) : Rerun(mode, ui_teams, ui_rounds, ui_user)
    \/ RestartDraft
    \/ \E total_starters \in {1, MaxRounds} : StartDraft(total_starters)

SpecApp == InitApp /\ [][NextApp]_vars

(***************************************************************************)
(* The generator behind random.uniform.  draft_engine.py calls the         *)
(* function of the random module, whose generator is one per process:      *)
(* after random.seed(s) it returns a fixed sequence of values, rng.stream, *)
(* to whoever calls next.  rng.pos counts the values returned so far,      *)
(* rng.own those returned to this Draft, and rng.first is the place in the *)
(* sequence of the first value of this Draft's last scoring.               *)
(***************************************************************************)
\* sequences the generator returns after a seed.  random.uniform(a, b) is
\* a + (b - a) * random(): a value of the sequence is the end of the interval
\* the draw falls on, -1 the lower and 1 the upper
Streams == [1..MaxDraws -> {-1, 1}]

\* make_bot_pick_with_prefs, each scored candidate taking the generator's
\* next value
SeededBotPick(prof, lookahead) ==
    LET n == IF player_pool = <<>> THEN 0 ELSE Len(Candidates(player_pool, lookahead))
        draws == [i \in 1..n |-> rng.stream[rng.pos + i] * NoiseScale2(RoundIndex)]
    IN  /\ rng.pos + n <= Len(rng.stream)
        /\ MakeBotPickWithPrefs(prof, lookahead, draws)
        /\ LogPick
        /\ rng' = [rng EXCEPT !.pos = @ + n, !.own = @ + n,
                              !.first = IF n > 0 THEN rng.pos + 1 ELSE @]
        /\ UNCHANGED app

\* make_bot_pick_with_prefs on another Draft of the process, which scores k
\* candidates
OtherDraftScores(k) ==
    /\ rng.pos + k <= Len(rng.stream)
    /\ rng' = [rng EXCEPT !.pos = @ + k]
    /\ UNCHANGED <<player_pool, teams, current_round, current_pick_in_round>>
    /\ UNCHANGED <<last, history, app>>
    /\ UNCHANGED Config

\* random.seed(s), then the Draft is built
InitRng ==
    /\ InitDraft
    /\ app = NoApp
    /\ rng \in {[stream |-> st, pos |-> 0, own |-> 0, first |-> 0] : st \in Streams}

NextRng ==
    \/ \E prof \in Profiles, lookahead \in 0..MaxLookahead : SeededBotPick(prof, lookahead)
    \/ \E k \in 1..MaxOtherDraws : OtherDraftScores(k)

SpecRng == InitRng /\ [][NextRng]_vars

(***************************************************************************)
(* Rosters built by hand and scored.  A table of sixteen players, three    *)
(* QBs, three TEs, five RBs and five WRs of three NFL teams, is drafted    *)
(* with as many rounds as it has rows: the user drafts on their turns, the *)
(* best available player of a position at a time, positions taken in       *)
(* POSITION_ORDER; the other teams draft by make_bot_pick; and on any turn *)
(* a bot with the stacking weight 1.5 and no other preference may draft by *)
(* make_bot_pick_with_prefs with the default lookahead.                    *)
(***************************************************************************)
RowsScore ==
    << Row("Q1", "QB", "01", "KC",   1, 0),
       Row("W1", "WR", "01", "KC",   2, 0),
       Row("R1", "RB", "01", "BUF",  3, 0),
       Row("T1", "TE", "01", "BUF",  4, 0),
       Row("W2", "WR", "02", "BUF",  5, 0),
       Row("R2", "RB", "02", "KC",   6, 0),
       Row("Q2", "QB", "02", "BUF",  7, 0),
       Row("W3", "WR", "03", "SF",   8, 0),
       Row("T2", "TE", "02", "KC",   9, 0),
       Row("R3", "RB", "03", "SF",  10, 0),
       Row("W4", "WR", "04", "KC",  11, 0),
       Row("R4", "RB", "04", "KC",  12, 0),
       Row("Q3", "QB", "03", "SF",  13, 0),
       Row("W5", "WR", "05", "BUF", 14, 0),
       Row("R5", "RB", "05", "BUF", 15, 0),
       Row("T3", "TE", "03", "SF",  16, 0) >>

\* stack_weight = 1.5, every other preference 0, randomness_factor = 0
ScoreProfile == Profile(0, 0, 0, "None", 0, 15, 0)

\* the names the user picks here: the first pool entry of a position, no
\* position that comes before one the user's roster already holds
ScoreUserNames ==
    LET picks == teams[user_team_index + 1]
        held == {IndexOf(POSITION_ORDER, picks[i].position) : i \in 1..Len(picks)}
        first == {i \in 1..Len(player_pool) :
                     \A j \in 1..(i - 1) : player_pool[j].position # player_pool[i].position}
    IN  {player_pool[i].name :
            i \in {k \in first :
                      \A h \in held : h <= IndexOf(POSITION_ORDER, player_pool[k].position)}}

InitScore ==
    /\ num_teams \in 1..MaxScoreTeams
    /\ num_rounds = Len(RowsScore)
    /\ user_team_index \in 0..(num_teams - 1)
    /\ rookie_names = RookieNames(RowsScore, TRUE)
    /\ catalog = BuildPool(RowsScore)
    /\ player_pool = BuildPool(RowsScore)
    /\ csv = [columns |-> RequiredColumns \cup {"Rookie"}, result |-> "ok", missing |-> {}]
    /\ teams = [t \in 1..num_teams |-> <<>>]
    /\ current_round = 1
    /\ current_pick_in_round = 1
    /\ last = NoCall
    /\ history = <<>>
    /\ app = NoApp
    /\ rng = NoRng

NextScore ==
    \/ \E player_name \in ScoreUserNames :
          MakeUserPick(player_name) /\ LogPick /\ UNCHANGED <<app, rng>>
    \/ /\ GetCurrentTeamIndex # user_team_index
       /\ MakeBotPick /\ LogPick /\ UNCHANGED <<app, rng>>
    \/ \E draws \in DrawVectors(ScoreProfile, DEFAULT_LOOKAHEAD) :
          MakeBotPickWithPrefs(ScoreProfile, DEFAULT_LOOKAHEAD, draws)
             /\ LogPick /\ UNCHANGED <<app, rng>>

SpecScore == InitScore /\ [][NextScore]_vars

(***************************************************************************)
(* Vocabulary of the properties                                            *)
(***************************************************************************)
PickOps == {"make_bot_pick", "make_bot_pick_with_prefs", "make_user_pick"}

\* the places a player can be: slot i of the pool, or slot i of a roster
Places ==
    {<<"pool", 0, i>> : i \in 1..Len(player_pool)}
    \cup UNION {{<<"roster", t, i>> : i \in 1..Len(teams[t])} : t \in 1..num_teams}

At(place) ==
    IF place[1] = "pool" THEN player_pool[place[3]] ELSE teams[place[2]][place[3]]

RECURSIVE SumLen(_, _)
SumLen(ts, t) == IF t = 0 THEN 0 ELSE Len(ts[t]) + SumLen(ts, t - 1)

\* the number of successful picks so far: every one added one roster entry
PickCount == SumLen(teams, num_teams)

\* the team on the clock at pick `pick` of round `rnd` of a snake draft
OnClock(rnd, pick) == IF rnd % 2 = 1 THEN pick - 1 ELSE num_teams - pick

\* the team that was on the clock when the last call was made
LastOnClock == OnClock(last.round, last.pick)

\* the last call left pool, rosters and sequencer as they were
LastChangedNothing ==
    /\ player_pool = last.pool
    /\ teams = last.teams
    /\ current_round = last.round
    /\ current_pick_in_round = last.pick

\* position of a pick in the whole draft, 1-based
Overall(rnd, pick) == (rnd - 1) * num_teams + pick

\* the last call drafted slot i of the pool it found, onto team t
LastDrafted(i, t) ==
    /\ player_pool = [j \in 1..(Len(last.pool) - 1) |->
                         IF j < i THEN last.pool[j] ELSE last.pool[j + 1]]
    /\ teams = [u \in 1..num_teams |->
                   IF u = t + 1 THEN last.teams[u] \o <<last.pool[i]>>
                   ELSE last.teams[u]]
    /\ current_pick_in_round \in 1..num_teams
    /\ Overall(current_round, current_pick_in_round)
          = Overall(last.round, last.pick) + 1

\* the candidates the last make_bot_pick_with_prefs call looked at
LastWindow == 1..Min(last.lookahead, Len(last.pool))

\* q would be a third QB, or a third TE, on a roster
OverCap(picks, q) ==
    \/ q.position = "QB" /\ CountPosition(picks, "QB") >= 2
    \/ q.position = "TE" /\ CountPosition(picks, "TE") >= 2

\* the last call was a preference pick that scored its window and drafted
ScoredCall == last.op = "make_bot_pick_with_prefs" /\ last.result = "ok"

\* the roster of the team that was on the clock at the last call
LastPicks == last.teams[LastOnClock + 1]

\* what candidate i of the last call scored below minus its rank, in
\* twentieths
Penalty(i) == 20 * (-last.pool[i].adp) - last.scores[i]

\* under ScoreProfile a score is -adp, less whole points of guards, plus the
\* stacking weight 1.5 or nothing: the half point tells the two apart
StackPart(i) == IF Penalty(i) % 20 = 10 THEN ScoreProfile.stack_weight ELSE 0

\* the points the guards took from candidate i of the last call
GuardPart(i) == (Penalty(i) + 2 * StackPart(i)) \div 20

(***************************************************************************)
(* C1  Conservation: in every reachable state the pool and the rosters     *)
(* together hold as many players as the catalog, and every player of the   *)
(* catalog is in exactly one place (one pool slot or one roster slot).     *)
(***************************************************************************)
C1_Conservation ==
    /\ Len(player_pool) + PickCount = Len(catalog)
    /\ \A c \in 1..Len(catalog) :
          Cardinality({pl \in Places : At(pl).name = catalog[c].name}) = 1
    /\ \A pl \in Places : \E c \in 1..Len(catalog) : At(pl) = catalog[c]

\* a preference pick has just succeeded with several players drafted and
\* players left in the pool
C1_Witness ==
    /\ last.op = "make_bot_pick_with_prefs"
    /\ last.result = "ok"
    /\ PickCount >= 3
    /\ player_pool # <<>>

(***************************************************************************)
(* C2  A pick operation called on an empty pool (make_user_pick: on the    *)
(* user's turn) reports not-found and leaves pool, rosters and sequencer   *)
(* as they were.  make_bot_pick breaks this: it advances the sequencer.    *)
(***************************************************************************)
C2_FailedPickChangesNothing ==
    ( /\ last.op \in PickOps
      /\ last.pool = <<>>
      /\ last.op = "make_user_pick" => LastOnClock = user_team_index )
    => (last.result = "none" /\ LastChangedNothing)

(***************************************************************************)
(* C3  make_user_pick on the user's turn with a name that no player of the *)
(* remaining pool bears returns not-found and changes nothing; the user is *)
(* still on the clock.                                                     *)
(***************************************************************************)
C3_UnknownNameChangesNothing ==
    ( /\ last.op = "make_user_pick"
      /\ LastOnClock = user_team_index
      /\ \A i \in 1..Len(last.pool) : last.pool[i].name # last.arg )
    => ( /\ last.result = "none"
         /\ LastChangedNothing
         /\ OnClock(current_round, current_pick_in_round) = user_team_index )

\* the user asked for a player that is already on a roster, while other
\* players were still in the pool
C3_Witness ==
    /\ last.op = "make_user_pick"
    /\ last.result = "none"
    /\ last.pool # <<>>
    /\ \E t \in 1..num_teams : \E i \in 1..Len(teams[t]) :
          teams[t][i].name = last.arg

(***************************************************************************)
(* C4  make_user_pick raises the not-user's-turn error exactly when the    *)
(* team on the clock is not the user's, and then changes nothing; on the   *)
(* user's turn with a name borne by a pool player, exactly that player     *)
(* leaves the pool for the end of the user's roster and the sequencer      *)
(* advances by exactly one pick.                                           *)
(***************************************************************************)
C4_UserPick ==
    last.op = "make_user_pick" =>
       /\ last.result = "NotUsersTurn" <=> LastOnClock # user_team_index
       /\ last.result = "NotUsersTurn" => LastChangedNothing
       /\ \A i \in 1..Len(last.pool) :
             (LastOnClock = user_team_index /\ last.pool[i].name = last.arg)
             => ( /\ last.result = "ok"
                  /\ last.player = last.arg
                  /\ LastDrafted(i, user_team_index) )

\* the user, on the clock in a reversed round of a draft of several teams,
\* took a player that was not the head of the pool
C4_Witness ==
    /\ last.op = "make_user_pick"
    /\ last.result = "ok"
    /\ last.pool[1].name # last.arg
    /\ last.round = 2
    /\ num_teams >= 2

(***************************************************************************)
(* C5  Turn determinism: after k successful picks the team on the clock is *)
(* _get_pick_order(ceil((k + 1) / N))[k mod N].  A failed make_bot_pick    *)
(* (see C2) advances the sequencer without a pick and breaks it.           *)
(***************************************************************************)
C5_TurnDeterminism ==
    LET k == PickCount
        rnd == (k \div num_teams) + 1     \* ceil((k + 1) / N)
    IN  GetCurrentTeamIndex = GetPickOrder(rnd)[(k % num_teams) + 1]

(***************************************************************************)
(* C6  is_finished() is false while fewer than num_teams * num_rounds      *)
(* successful picks were made and true once that many were made.  A failed *)
(* make_bot_pick (see C2) advances the sequencer and finishes the draft    *)
(* with fewer picks.                                                       *)
(***************************************************************************)
C6_FinishedIffAllPicksMade ==
    IsFinished <=> PickCount >= num_teams * num_rounds

(***************************************************************************)
(* C7  Snake order: for every round r, _get_pick_order(r) is 0..N-1 in     *)
(* ascending order when r is odd and in descending order when r is even;   *)
(* it is a permutation of the team indices and equals the order of round   *)
(* r - 2.                                                                  *)
(***************************************************************************)
C7_SnakeOrder ==
    \A r \in 1..(current_round + 2) :
       LET order == GetPickOrder(r)
       IN  /\ Len(order) = num_teams
           /\ r % 2 = 1 => \A i \in 1..num_teams : order[i] = i - 1
           /\ r % 2 = 0 => \A i \in 1..num_teams : order[i] = num_teams - i
           /\ {order[i] : i \in 1..num_teams} = 0..(num_teams - 1)
           /\ \A i, j \in 1..num_teams : order[i] = order[j] => i = j
           /\ r > 2 => order = GetPickOrder(r - 2)

\* a draft of several teams has reached its third round by picks
C7_Witness ==
    /\ num_teams >= 2
    /\ current_round >= 3
    /\ last.result = "ok"

(***************************************************************************)
(* C8  Hard cap.  As claimed: a preference pick drafts a third QB or a     *)
(* third TE onto a roster only if every player of the remaining pool is    *)
(* such an over-cap player.                                                *)
(***************************************************************************)
C8_HardCapUnlessPoolOverCap ==
    (last.op = "make_bot_pick_with_prefs" /\ last.result = "ok") =>
       LET picks == last.teams[LastOnClock + 1]
       IN  \A i \in 1..Len(last.pool) :
              (last.pool[i].name = last.player /\ OverCap(picks, last.pool[i]))
              => \A j \in 1..Len(last.pool) : OverCap(picks, last.pool[j])

(***************************************************************************)
(* C8 (amended)  A preference pick drafts a third QB or a third TE onto a  *)
(* roster only if every candidate of the lookahead window, the first       *)
(* `lookahead` entries of the pool, is such an over-cap player.            *)
(***************************************************************************)
C8_HardCapUnlessWindowOverCap ==
    (last.op = "make_bot_pick_with_prefs" /\ last.result = "ok") =>
       LET picks == last.teams[LastOnClock + 1]
       IN  \A i \in 1..Len(last.pool) :
              (last.pool[i].name = last.player /\ OverCap(picks, last.pool[i]))
              => \A j \in LastWindow : OverCap(picks, last.pool[j])

\* a bot whose roster held two QBs (or two TEs) had a third one at the head
\* of its window and drafted a later candidate that is not over the cap
C8_Witness ==
    /\ last.op = "make_bot_pick_with_prefs"
    /\ last.result = "ok"
    /\ OverCap(last.teams[LastOnClock + 1], last.pool[1])
    /\ \E j \in LastWindow :
          /\ last.pool[j].name = last.player
          /\ ~OverCap(last.teams[LastOnClock + 1], last.pool[j])

(***************************************************************************)
(* C9  On a non-empty pool with lookahead >= 1, make_bot_pick_with_prefs   *)
(* drafts a candidate of the first `lookahead` pool entries whose score is *)
(* maximal among them, and among candidates of maximal score the first in  *)
(* pool order.                                                             *)
(***************************************************************************)
C9_FirstMaximalCandidate ==
    ( /\ last.op = "make_bot_pick_with_prefs"
      /\ last.pool # <<>>
      /\ last.lookahead >= 1 )
    => /\ last.result = "ok"
       /\ DOMAIN last.scores = LastWindow
       /\ \E i \in LastWindow :
             /\ last.pool[i].name = last.player
             /\ \A j \in LastWindow : last.scores[j] <= last.scores[i]
             /\ \A j \in LastWindow : j < i => last.scores[j] < last.scores[i]
             /\ LastDrafted(i, LastOnClock)

\* two candidates shared the maximal score and the earlier one was drafted
C9_Witness ==
    /\ last.op = "make_bot_pick_with_prefs"
    /\ last.result = "ok"
    /\ \E i, j \in LastWindow :
          /\ i < j
          /\ last.pool[i].name = last.player
          /\ last.scores[i] = last.scores[j]
          /\ \A m \in LastWindow : last.scores[m] <= last.scores[i]

(***************************************************************************)
(* C10  make_bot_pick_with_prefs returns not-found, raising nothing and    *)
(* changing nothing, whenever the pool or the lookahead window is empty.   *)
(* With a non-empty pool and lookahead = 0 the code raises ValueError.     *)
(***************************************************************************)
C10_EmptyWindowIsNotFound ==
    (last.op = "make_bot_pick_with_prefs" /\ LastWindow = {})
    => (last.result = "none" /\ LastChangedNothing)

(***************************************************************************)
(* C11  summary_df reconstructs the pick history: after k successful picks *)
(* (k <= num_teams * num_rounds) it returns k rows, overall_pick 1..k in   *)
(* ascending order, and row i carries round, pick in round, team and       *)
(* player of the i-th pick that was made.                                  *)
(***************************************************************************)
C11_SummaryIsHistory ==
    PickCount <= num_teams * num_rounds =>
       LET rows == SummaryDf
       IN  /\ Len(history) = PickCount
           /\ Len(rows) = PickCount
           /\ \A i \in 1..Len(rows) :
                 /\ rows[i].overall_pick = i
                 /\ rows[i].round = history[i].round
                 /\ rows[i].pick_in_round = history[i].pick
                 /\ rows[i].team = <<"Team", history[i].team + 1>>
                 /\ rows[i].player = history[i].player

\* several teams have picked into a reversed round, within the draft, and the
\* first pick was not the best ranked player
C11_Witness ==
    /\ num_teams >= 2
    /\ PickCount > num_teams
    /\ PickCount <= num_teams * num_rounds
    /\ history[1].player # catalog[1].name

(***************************************************************************)
(* C12  A summary_df call changes neither pool, nor rosters, nor           *)
(* sequencer, and a second call right after a first returns the same rows. *)
(***************************************************************************)
C12_SummaryIdempotent ==
    [][ last'.op = "summary_df" =>
          /\ player_pool' = player_pool
          /\ teams' = teams
          /\ current_round' = current_round
          /\ current_pick_in_round' = current_pick_in_round
          /\ last.op = "summary_df" => last'.rows = last.rows ]_vars

\* a report of several picks has just been returned (and can be asked again)
C12_Witness ==
    /\ last.op = "summary_df"
    /\ Len(last.rows) >= 2
    /\ player_pool # <<>>

(***************************************************************************)
(* C13  Best-available scenario: with 4 teams, 2 rounds and 8 players      *)
(* ranked 1..8, after eight make_bot_pick calls team t holds the players   *)
(* ranked t + 1 and 8 - t, in that order (ranks 1..4 went to teams 0..3,   *)
(* ranks 5..8 to teams 3..0), the draft is finished and summary_df has 8   *)
(* rows, overall_pick 1..8, row i being the pick of the player ranked i.   *)
(***************************************************************************)
C13_BestAvailableScenario ==
    PickCount = 8 =>
       /\ \A t \in 0..3 :
             /\ Len(teams[t + 1]) = 2
             /\ teams[t + 1][1] = catalog[t + 1]
             /\ teams[t + 1][2] = catalog[8 - t]
       /\ \A i \in 1..8 : catalog[i].adp = i
       /\ IsFinished
       /\ Len(SummaryDf) = 8
       /\ \A i \in 1..8 :
             /\ SummaryDf[i].overall_pick = i
             /\ SummaryDf[i].player = catalog[i].name
             /\ SummaryDf[i].team = <<"Team", (IF i <= 4 THEN i - 1 ELSE 8 - i) + 1>>

\* the eight picks were made and the report of all eight was returned
C13_Witness ==
    /\ PickCount = 8
    /\ last.op = "summary_df"
    /\ Len(last.rows) = 8
    /\ \A i \in 1..8 : history[i].player = catalog[i].name

(***************************************************************************)
(* C14  The pool, which get_available_players returns, is sorted ascending *)
(* by rank in every reachable state, and its players are in the relative   *)
(* order they had in the initial pool.                                     *)
(***************************************************************************)
C14_PoolRankOrdered ==
    /\ \A i, j \in 1..Len(ReturnedList) :
          i < j => ReturnedList[i].adp <= ReturnedList[j].adp
    /\ \A i, j \in 1..Len(player_pool) :
          i < j => \E a, b \in 1..Len(catalog) :
                      /\ a < b
                      /\ catalog[a] = player_pool[i]
                      /\ catalog[b] = player_pool[j]

\* a pick has just taken a player from the middle of the pool
C14_Witness ==
    /\ last.result = "ok"
    /\ \E i \in 2..(Len(last.pool) - 1) : last.pool[i].name = last.player
    /\ Len(player_pool) >= 2

(***************************************************************************)
(* C15  get_available_players returns a snapshot: the sequence it returned *)
(* still reads the same after the next operation.  The code returns the    *)
(* engine's own list, which the next pick shortens.                        *)
(***************************************************************************)
C15_AvailableIsSnapshot ==
    [][ last.op = "get_available_players" => ReturnedList' = last.pool ]_vars

(***************************************************************************)
(* C16  Rosters are append-only: over every call each roster before the    *)
(* call is a prefix of the roster after it; a successful pick appends      *)
(* exactly the drafted player to the roster of the team that was on the    *)
(* clock and leaves every other roster as it was.                          *)
(***************************************************************************)
C16_RostersAppendOnly ==
    last.op # "init" =>
       /\ \A t \in 1..num_teams :
             /\ Len(last.teams[t]) <= Len(teams[t])
             /\ SubSeq(teams[t], 1, Len(last.teams[t])) = last.teams[t]
       /\ last.result = "ok" =>
             /\ Len(teams[LastOnClock + 1]) = Len(last.teams[LastOnClock + 1]) + 1
             /\ teams[LastOnClock + 1][Len(teams[LastOnClock + 1])].name = last.player
             /\ \A t \in 1..num_teams :
                   t # LastOnClock + 1 => teams[t] = last.teams[t]
       /\ last.result # "ok" => teams = last.teams

\* a team that already had a player drafted another one, while another team
\* had a roster too
C16_Witness ==
    /\ last.result = "ok"
    /\ num_teams >= 2
    /\ last.teams[LastOnClock + 1] # <<>>
    /\ \E t \in 1..num_teams : t # LastOnClock + 1 /\ last.teams[t] # <<>>

(***************************************************************************)
(* C17  The noise of a Draft comes from a source of its own: the values a  *)
(* bot pick of this Draft draws are the next values of the seeded sequence *)
(* after those this Draft drew before, whatever other Drafts have drawn.   *)
(* The code draws from the generator of the random module, which other     *)
(* Drafts advance.                                                         *)
(***************************************************************************)
C17_InstanceScopedNoise ==
    (last.op = "make_bot_pick_with_prefs" /\ last.result = "ok") =>
       LET n == Len(last.scores)
           own_before == rng.own - n
       IN  \A i \in 1..n :
              rng.stream[rng.first + i - 1] = rng.stream[own_before + i]

(***************************************************************************)
(* C18  The auto-advance loop makes at most 2 * (num_teams - 1) bot picks  *)
(* between two picks of the user, and a run leaves the loop only with the  *)
(* draft finished, or the user on the clock, or after a bot pick that      *)
(* returned not-found.  The code also leaves the loop by an IndexError on  *)
(* bot_profiles, raised by the loop in Advanced mode and by the rendering  *)
(* of the board in either mode.                                            *)
(***************************************************************************)
C18_LoopExits ==
    /\ app.bot_picks <= 2 * (num_teams - 1)
    /\ app.pc \in {"idle", "error"} =>
          \/ IsFinished
          \/ GetCurrentTeamIndex = user_team_index
          \/ /\ app.exit = "break"
             /\ last.op = "make_bot_pick_with_prefs"
             /\ last.result = "none"

(***************************************************************************)
(* C19  Loading the table fails with the schema error exactly when one of  *)
(* the columns ADP, Position, Player, Team is absent from the file; the    *)
(* error names exactly the absent ones among these four; a file with the   *)
(* four columns and no Rookie column loads, and a Draft is built from it   *)
(* with no rookies.                                                        *)
(***************************************************************************)
C19_SchemaError ==
    LET absent == {c \in {"ADP", "Position", "Player", "Team"} : c \notin csv.columns}
    IN  /\ csv.result # "unread" => (csv.result = "ValueError" <=> absent # {})
        /\ csv.result = "ValueError" => csv.missing = absent
        /\ csv.result = "ok" => csv.missing = {}
        /\ num_teams > 0 => absent = {}
        /\ (num_teams > 0 /\ "Rookie" \notin csv.columns) =>
              rookie_names = {}

\* a file without the Rookie column and without two required columns failed
\* to load
C19_Witness ==
    /\ csv.result = "ValueError"
    /\ Cardinality(csv.missing) >= 2
    /\ "Rookie" \notin csv.columns

(***************************************************************************)
(* C20  Under app.py every bot pick is made with a team other than the     *)
(* user's on the clock, make_user_pick is called only with the user's team *)
(* on the clock and the draft not finished and so never raises the         *)
(* not-user's-turn error, and a player joins the user's roster only by a   *)
(* make_user_pick call that named that player.                             *)
(***************************************************************************)
C20_DriverKeepsTurns ==
    LET roster == teams[user_team_index + 1]
        before == last.teams[user_team_index + 1]
    IN  /\ last.op \in {"init", "make_bot_pick_with_prefs", "make_user_pick"}
        /\ last.op = "make_bot_pick_with_prefs" =>
              /\ LastOnClock # user_team_index
              /\ last.round <= num_rounds
        /\ last.op = "make_user_pick" =>
              /\ LastOnClock = user_team_index
              /\ last.round <= num_rounds
              /\ last.result # "NotUsersTurn"
        /\ last.op # "init" =>
              IF last.op = "make_user_pick" /\ last.result = "ok"
              THEN /\ Len(roster) = Len(before) + 1
                   /\ SubSeq(roster, 1, Len(before)) = before
                   /\ roster[Len(roster)].name = last.arg
              ELSE roster = before

\* the user drafted in a reversed round, after bots had picked in the round
C20_Witness ==
    /\ last.op = "make_user_pick"
    /\ last.result = "ok"
    /\ last.round = 2
    /\ last.pick > 1
    /\ app.pc = "loop"

(***************************************************************************)
(* C24  In every reachable state the round index the scorer derives from   *)
(* the overall pick number is current_round.                               *)
(***************************************************************************)
C24_RoundIndexIsCurrentRound ==
    /\ RoundIndex = current_round
    /\ ((current_round - 1) * num_teams + current_pick_in_round - 1) \div num_teams + 1
          = current_round

\* the last pick of a later round is on the clock, after a preference pick
\* that scored its candidates
C24_Witness ==
    /\ num_teams >= 2
    /\ current_round >= 2
    /\ current_pick_in_round = num_teams
    /\ last.op = "make_bot_pick_with_prefs"
    /\ last.result = "ok"

(***************************************************************************)
(* C25  In every reachable state current_round >= 1 and                    *)
(* 1 <= current_pick_in_round <= num_teams, and get_current_team_index()   *)
(* is an index in 0..num_teams - 1, also once the draft is finished.       *)
(***************************************************************************)
C25_SequencerRange ==
    /\ current_round >= 1
    /\ current_pick_in_round >= 1
    /\ current_pick_in_round <= num_teams
    /\ GetCurrentTeamIndex \in 0..(num_teams - 1)

\* the draft is finished, its last round having been completed by a pick of
\* the last team of the round
C25_Witness ==
    /\ IsFinished
    /\ num_teams >= 2
    /\ last.result = "ok"
    /\ last.pick = num_teams
    /\ current_pick_in_round = 1

(***************************************************************************)
(* C26  Once is_finished() is true no pick operation drafts a player, so   *)
(* no roster holds more than num_rounds players and current_round never    *)
(* exceeds num_rounds + 1.  The pick operations of the code do not look at *)
(* is_finished().                                                          *)
(***************************************************************************)
C26_NoPicksPastTheEnd ==
    /\ (last.op \in PickOps /\ last.round > num_rounds) =>
          /\ last.result # "ok"
          /\ player_pool = last.pool
          /\ teams = last.teams
    /\ \A t \in 1..num_teams : Len(teams[t]) <= num_rounds
    /\ current_round <= num_rounds + 1

(***************************************************************************)
(* C27  Neutral-profile equivalence: a make_bot_pick_with_prefs call with  *)
(* lookahead >= 1 in which every candidate scored minus its rank (no bias, *)
(* no stacking, no noise, no guard) leaves the state make_bot_pick would   *)
(* leave: the best ranked player drafted onto the team on the clock, if    *)
(* there is one, and the sequencer advanced.                               *)
(***************************************************************************)
C27_NeutralProfileIsBestAvailable ==
    ( /\ last.op = "make_bot_pick_with_prefs"
      /\ last.lookahead >= 1
      /\ \A i \in DOMAIN last.scores : last.scores[i] = 20 * (-last.pool[i].adp) )
    => /\ <<current_round, current_pick_in_round>> = AdvancePick(last.round, last.pick)
       /\ IF last.pool = <<>>
          THEN player_pool = last.pool /\ teams = last.teams
          ELSE /\ last.player = last.pool[1].name
               /\ player_pool = Tail(last.pool)
               /\ teams = AddPlayer(last.teams, LastOnClock, last.pool[1])

(***************************************************************************)
(* C21  QB/TE scarcity guard: a QB (TE) candidate loses 1,000,000 points,  *)
(* and not the 8, when the picking roster holds 2 or more QBs (TEs);       *)
(* otherwise it loses 8 points exactly when the roster holds at least one  *)
(* QB (TE) and the round is 6 or earlier.  A candidate of another position *)
(* loses neither: nothing, or a balance penalty if it is the fifth or      *)
(* later of its position.                                                  *)
(***************************************************************************)
C21_ScarcityGuard ==
    ScoredCall =>
       \A i \in LastWindow :
          LET c == last.pool[i]
              n == CountPosition(LastPicks, c.position)
          IN  IF c.position \in {"QB", "TE"}
              THEN GuardPart(i) =
                      (IF n >= 2 THEN 1000000
                       ELSE IF n >= 1 /\ last.round <= 6 THEN 8 ELSE 0)
              ELSE /\ GuardPart(i) \in {0, 6, 12}
                   /\ n < 4 => GuardPart(i) = 0

\* a roster with two QBs and one TE scored in round 6 or earlier, a QB, a TE
\* and an RB among the candidates
C21_Witness ==
    /\ ScoredCall
    /\ last.round <= 6
    /\ CountPosition(LastPicks, "QB") = 2
    /\ CountPosition(LastPicks, "TE") = 1
    /\ \E i, j, k \in LastWindow :
          /\ last.pool[i].position = "QB"
          /\ last.pool[j].position = "TE"
          /\ last.pool[k].position = "RB"

(***************************************************************************)
(* C22  RB/WR balance guard: a WR candidate loses 12 points when the       *)
(* picking roster holds 4 or more WRs and no RB, in any round; else 6      *)
(* points when it holds 4 or more WRs, at most one RB and the round is 8   *)
(* or earlier; else nothing.  The same holds for an RB candidate with RB   *)
(* and WR exchanged.  A candidate of another position loses no balance     *)
(* penalty, and no candidate loses both.                                   *)
(***************************************************************************)
C22_BalanceGuard ==
    ScoredCall =>
       \A i \in LastWindow :
          LET c == last.pool[i]
              wr == CountPosition(LastPicks, "WR")
              rb == CountPosition(LastPicks, "RB")
              own == IF c.position = "WR" THEN wr ELSE rb
              other == IF c.position = "WR" THEN rb ELSE wr
          IN  IF c.position \in {"WR", "RB"}
              THEN GuardPart(i) =
                      (IF own >= 4 /\ other = 0 THEN 12
                       ELSE IF own >= 4 /\ other <= 1 /\ last.round <= 8 THEN 6
                       ELSE 0)
              ELSE GuardPart(i) \in {0, 8, 1000000}

\* a roster with four WRs and one RB scored in round 8 or earlier, a WR and
\* an RB among the candidates
C22_Witness ==
    /\ ScoredCall
    /\ last.round <= 8
    /\ CountPosition(LastPicks, "WR") >= 4
    /\ CountPosition(LastPicks, "RB") = 1
    /\ \E i, j \in LastWindow :
          /\ last.pool[i].position = "WR"
          /\ last.pool[j].position = "RB"

(***************************************************************************)
(* C23  Stacking bonus: stack_weight is added to a candidate's score       *)
(* exactly when the candidate is a WR or TE and the picking roster holds a *)
(* QB of its NFL team, or the candidate is a QB and the picking roster     *)
(* holds a WR or TE of its NFL team; it is added once, and the rosters of  *)
(* the other teams do not count.                                           *)
(***************************************************************************)
C23_StackingBonus ==
    ScoredCall =>
       \A i \in LastWindow :
          LET c == last.pool[i]
              stacks ==
                 \E j \in 1..Len(LastPicks) :
                    /\ LastPicks[j].team = c.team
                    /\ \/ c.position \in {"WR", "TE"} /\ LastPicks[j].position = "QB"
                       \/ c.position = "QB" /\ LastPicks[j].position \in {"WR", "TE"}
          IN  /\ Penalty(i) % 20 \in {0, 10}
              /\ StackPart(i) = (IF stacks THEN ScoreProfile.stack_weight ELSE 0)
              /\ GuardPart(i) \in {0, 6, 8, 12, 1000000}

\* the picking roster holds one team's QB and another roster holds another
\* team's: a receiver of the one and a receiver of the other are candidates
C23_Witness ==
    /\ ScoredCall
    /\ num_teams >= 2
    /\ \E i, k \in LastWindow, t \in 1..num_teams :
          /\ t # LastOnClock + 1
          /\ last.pool[i].position \in {"WR", "TE"}
          /\ last.pool[i].team \in TeamsOf(LastPicks, {"QB"})
          /\ last.pool[k].position \in {"WR", "TE"}
          /\ last.pool[k].team \notin TeamsOf(LastPicks, {"QB"})
          /\ last.pool[k].team \in TeamsOf(last.teams[t], {"QB"})
====
